---- MODULE Spec2Model ----
(***************************************************************************)
(* Model of the immo-api ingestion pipeline (DVFScraper), its Scheduler,   *)
(* the POST /scrape admin route and the Property store they write to.      *)
(*                                                                         *)
(* JavaScript runs handlers to completion between await points, so each    *)
(* action below is one synchronous stretch of code: from a callback's      *)
(* entry, or from the resolution of an awaited promise, to the next await. *)
(***************************************************************************)
EXTENDS Integers, Sequences, FiniteSets, TLC

(***************************************************************************)
(* JavaScript values of a raw record's fields.                             *)
(*   <<"undef">>      the field is absent (undefined)                      *)
(*   <<"null">>       null                                                 *)
(*   <<"num", n>>     a number                                             *)
(*   <<"nan">>        the number NaN                                       *)
(*   <<"str", cs>>    a string that is read or built character by          *)
(*                    character, cs its sequence of characters             *)
(*   <<"txt", s>>     a string that is only compared or looked up          *)
(***************************************************************************)
Undef == <<"undef">>
Null == <<"null">>
NaN == <<"nan">>
Num(n) == <<"num", n>>
Str(cs) == <<"str", cs>>
Txt(s) == <<"txt", s>>

IsUndef(v) == v[1] = "undef"
IsNull(v) == v[1] = "null"
IsNum(v) == v[1] = "num"
IsNaN(v) == v[1] = "nan"
IsStr(v) == v[1] = "str"
IsTxt(v) == v[1] = "txt"

\* The decimal digits, in order: digit d is Digits[d + 1].
Digits == <<"0", "1", "2", "3", "4", "5", "6", "7", "8", "9">>

DigitChars == {Digits[i] : i \in 1..Len(Digits)}

DigitVal(c) == (CHOOSE i \in 1..Len(Digits) : Digits[i] = c) - 1

\* JavaScript truthiness: undefined, null, 0, NaN and "" are falsy.
Truthy(v) ==
    CASE IsUndef(v) -> FALSE
      [] IsNull(v) -> FALSE
      [] IsNaN(v) -> FALSE
      [] IsNum(v) -> v[2] # 0
      [] IsStr(v) -> Len(v[2]) > 0
      [] IsTxt(v) -> v[2] # ""

\* a || b
JsOr(a, b) == IF Truthy(a) THEN a ELSE b

\* The length of the longest prefix of cs made of digits.
RECURSIVE DigitPrefixLen(_)
DigitPrefixLen(cs) ==
    IF cs = << >> \/ Head(cs) \notin DigitChars
      THEN 0
      ELSE 1 + DigitPrefixLen(Tail(cs))

\* The value of a sequence of digits read in base ten.
RECURSIVE DigitsValue(_)
DigitsValue(cs) ==
    IF cs = << >>
      THEN 0
      ELSE 10 * DigitsValue(SubSeq(cs, 1, Len(cs) - 1)) + DigitVal(cs[Len(cs)])

\* parseFloat on a string: an optional sign, then the longest run of digits;
\* what follows the digits is ignored, and no digit at all gives NaN.
\* (Fractions and exponents are outside the modelled alphabet.)
ParseFloatChars(cs) ==
    LET neg == cs # << >> /\ Head(cs) = "-"
        body == IF neg THEN Tail(cs) ELSE cs
        n == DigitPrefixLen(body)
        mag == DigitsValue(SubSeq(body, 1, n))
    IN  IF n = 0 THEN NaN ELSE Num(IF neg THEN 0 - mag ELSE mag)

\* parseFloat(v): a number is first printed and then read back, a string is
\* read, anything else gives NaN.
parseFloat(v) ==
    CASE IsNum(v) -> v
      [] IsStr(v) -> ParseFloatChars(v[2])
      [] OTHER -> NaN

\* a < b and a > b on JavaScript numbers: any comparison with NaN is false.
JsLt(a, n) == IsNum(a) /\ a[2] < n
JsGt(a, n) == IsNum(a) /\ a[2] > n

RoundDiv_Floor(p, s) == p \div s

\* Math.round(p / s) for integers p and s > 0: floor(p / s + 1/2).
RoundDiv(p, s) == (2 * p + s) \div (2 * s)

\* Math.round(a / b) on JavaScript numbers; a NaN operand gives NaN.  The
\* divisor is positive wherever the code divides (the surface has passed the
\* range test), or is NaN.
MathRoundDiv(a, b) ==
    IF IsNum(a) /\ IsNum(b) /\ b[2] > 0
      THEN Num(RoundDiv(a[2], b[2]))
      ELSE NaN

\* The decimal digits of a natural number, as String(n) prints them.
RECURSIVE NatToChars(_)
NatToChars(n) ==
    IF n < 10
      THEN <<Digits[n + 1]>>
      ELSE NatToChars(n \div 10) \o <<Digits[(n % 10) + 1]>>

\* The characters a value contributes to a template literal `${v}`.
ToChars(v) ==
    CASE IsStr(v) -> v[2]
      [] IsNum(v) -> IF v[2] < 0 THEN <<"-">> \o NatToChars(0 - v[2]) ELSE NatToChars(v[2])
      [] IsNaN(v) -> <<"N", "a", "N">>
      [] OTHER -> <<"?">>

(***************************************************************************)
(* Entity Normalizer: DVFScraper.mutationToProperty and its lookup tables. *)
(* A raw record (mutation) is a record of the fields the code reads:       *)
(*   id_mutation, valeur_fonciere, surface_reelle_bati, type_local,        *)
(*   code_departement.                                                     *)
(* The result is << >> for null and <<entity>> for an entity.              *)
(***************************************************************************)
MIN_PRICE == 10000
MAX_PRICE == 50000000
MIN_SURFACE == 9
MAX_SURFACE == 1000

\* TYPE_LOCAL_MAP[key], undefined when the key is not in the map (the keys and
\* region names are written here without their accents).
TYPE_LOCAL_MAP(key) ==
    CASE key = Txt("Appartement") -> Txt("appartement")
      [] key = Txt("Maison") -> Txt("maison")
      [] key = Txt("Dependance") -> Txt("dependance")
      [] key = Txt("Local industriel. commercial ou assimile") -> Txt("local_commercial")
      [] OTHER -> Undef

IleDeFrance == {"75", "92", "93", "94", "91", "77", "78", "95"}

getRegionFromDepartement(dep) ==
    LET regions ==
          CASE IsTxt(dep) /\ dep[2] \in IleDeFrance -> Txt("Ile-de-France")
            [] dep = Txt("69") -> Txt("Auvergne-Rhone-Alpes")
            [] dep \in {Txt("13"), Txt("06")} -> Txt("Provence-Alpes-Cote d'Azur")
            [] dep = Txt("33") -> Txt("Nouvelle-Aquitaine")
            [] dep = Txt("31") -> Txt("Occitanie")
            [] dep = Txt("44") -> Txt("Pays de la Loire")
            [] OTHER -> Undef
    IN  JsOr(regions, Txt("France"))

\* `DVF_${mutation.id_mutation || Date.now()}_${Math.random()...}`: now is
\* the value of Date.now() and rnd the characters Math.random() gave.
ExternalIdOf(mutation, now, rnd) ==
    Str(<<"D", "V", "F", "_">> \o ToChars(JsOr(mutation.id_mutation, Num(now)))
          \o <<"_">> \o rnd)

PassesFilters_NoRange(mutation) ==
    /\ Truthy(mutation.valeur_fonciere)
    /\ Truthy(mutation.surface_reelle_bati)

\* Lines 835-845: TRUE when the record is not rejected.
PassesFilters(mutation) ==
    /\ Truthy(mutation.valeur_fonciere)
    /\ Truthy(mutation.surface_reelle_bati)
    /\ LET price == parseFloat(mutation.valeur_fonciere)
           surface == parseFloat(mutation.surface_reelle_bati)
       IN  ~ \/ JsLt(price, MIN_PRICE)
             \/ JsGt(price, MAX_PRICE)
             \/ JsLt(surface, MIN_SURFACE)
             \/ JsGt(surface, MAX_SURFACE)

mutationToProperty(mutation, now, rnd) ==
    IF ~PassesFilters(mutation)
      THEN << >>
      ELSE LET price == parseFloat(mutation.valeur_fonciere)
               surface == parseFloat(mutation.surface_reelle_bati)
           IN  << [ externalId |-> ExternalIdOf(mutation, now, rnd),
                    source |-> "dvf_gouv",
                    price |-> price,
                    pricePerSqm |-> MathRoundDiv(price, surface),
                    surface |-> surface,
                    propertyType |-> JsOr(TYPE_LOCAL_MAP(mutation.type_local), Txt("autre")),
                    transactionType |-> "vente",
                    department |-> JsOr(mutation.code_departement, Null),
                    region |-> getRegionFromDepartement(mutation.code_departement) ] >>

(***************************************************************************)
(* Bounds of the model and the inputs it is run on.                        *)
(***************************************************************************)
\* Runs of the pipeline that may start in one behaviour.
MaxRuns == 2

\* Calls of PropertyScraper.search in one behaviour.
MaxSearches == 1

\* The strings Math.random().toString(36).substr(2, 9) may give.
RandomSuffixes == {<<"a">>, <<"b">>}

\* const annees = [2023, 2022]
annees == <<2023, 2022>>

\* The first entries of DEPARTEMENTS; the loop treats every entry alike.
DEPARTEMENTS == <<"75", "92">>

NumPairs == Len(annees) * Len(DEPARTEMENTS)

\* The k-th (annee, dep) the nested loops of scrapeAll reach: years outside,
\* departments inside.
PairAt(k) ==
    << annees[((k - 1) \div Len(DEPARTEMENTS)) + 1],
       DEPARTEMENTS[((k - 1) % Len(DEPARTEMENTS)) + 1] >>

Chars250000 == <<"2", "5", "0", "0", "0", "0">>

\* Raw records the source holds.
RecA ==
    [ id_mutation |-> Str(<<"m", "7">>), valeur_fonciere |-> Str(Chars250000),
      surface_reelle_bati |-> Num(70), type_local |-> Txt("Appartement"),
      code_departement |-> Txt("75") ]

RecNoId ==
    [ id_mutation |-> Undef, valeur_fonciere |-> Num(120000),
      surface_reelle_bati |-> Str(<<"4", "5">>), type_local |-> Txt("Maison"),
      code_departement |-> Txt("92") ]

RecZeroPrice ==
    [ id_mutation |-> Str(<<"m", "8">>), valeur_fonciere |-> Num(0),
      surface_reelle_bati |-> Num(50), type_local |-> Txt("Maison"),
      code_departement |-> Txt("75") ]

\* What the source answers for a year and a department when the call
\* succeeds with a well-formed body: the same in every run.
SourceData(annee, dep) ==
    CASE annee = 2023 /\ dep = "75" -> <<RecA, RecZeroPrice>>
      [] annee = 2023 /\ dep = "92" -> <<RecNoId>>
      [] OTHER -> << >>

(***************************************************************************)
(* State.                                                                  *)
(***************************************************************************)
VARIABLES
    isRunning,    \* Scheduler.isRunning
    lastRun,      \* Scheduler.lastRun: << >> for null, <<t>> for a date
    lastResult,   \* Scheduler.lastResult: << >> for null, <<summary>>
    clock,        \* Date.now(), in units of the pipeline's delay
    runs,         \* the executions of scrapeAll in flight, one frame each
    started,      \* how many runs have started
    store,        \* the rows of the Property table
    trigger,      \* the last trigger handled and what it was answered
    settled,      \* the last runScraping call that began a run and settled
    search,       \* the upserts a call of PropertyScraper.search still has to do
    searches,     \* how many calls of search have been made
    normIn,       \* the raw record given to the normalizer
    normOut,      \* the results of the calls of the normalizer on normIn
    request,      \* the last call of a read-only operation: what was asked
    response,     \* and what it returned
    keyCache,     \* the Map keyCache: << >>, or <<cacheData>> for the API key
    apiKeyRow,    \* the row of the API key in the ApiKey table
    subscription, \* the row of its user in the Subscription table
    authCalls,    \* the calls of authMiddleware in flight, one frame each
    increments,   \* updates of requestsUsed sent and not yet applied
    deletion,     \* how far the DELETE /keys/:keyId handler has got
    served,       \* the last call of authMiddleware that ended, and how
    presented     \* how many requests have presented the API key

vars ==
    << isRunning, lastRun, lastResult, clock, runs, started, store, trigger,
       settled, search, searches, normIn, normOut, request, response,
       keyCache, apiKeyRow, subscription, authCalls, increments, deletion,
       served, presented >>

schedulerVars == <<isRunning, lastRun, lastResult>>
normVars == <<normIn, normOut>>
searchVars == <<search, searches>>
readVars == <<request, response>>
authVars ==
    <<keyCache, apiKeyRow, subscription, authCalls, increments, deletion, served, presented>>

\* The locals of one execution of scrapeAll, at its first await.
NewFrame(by) ==
    [ by |-> by, pc |-> "fetch", pair |-> 1, totalProperties |-> << >>,
      saveIdx |-> 0, saved |-> 0, errors |-> 0,
      fetched |-> <<PairAt(1)>>, failed |-> 0 ]

NoTrigger == [kind |-> "none", busy |-> FALSE, reply |-> 0, began |-> FALSE, ret |-> "none"]

\* settled: whether scrapeAll threw, what runScraping returned (<< >> for
\* null), the pairs the run fetched and whether every fetch of it failed.
NoSettled == [threw |-> FALSE, ret |-> << >>, fetched |-> << >>, allFailed |-> FALSE]

NoRequest == [route |-> "none"]
NoResponse == [route |-> "none"]

\* Some run has settled: every run fetches at least its first pair.
HasSettled == settled.fetched # << >>

\* Requests the plan of the user allows in a period.
RequestsLimit == 2

\* No request has presented the API key: the cache is empty, the key is
\* active and its user has a subscription with nothing used.
AuthIdle ==
    /\ keyCache = << >>
    /\ apiKeyRow = [isActive |-> TRUE]
    /\ subscription = [requestsUsed |-> 0, plan |-> [requestsLimit |-> RequestsLimit]]
    /\ authCalls = << >>
    /\ increments = 0
    /\ deletion = "none"
    /\ served = [status |-> 0, cached |-> FALSE, revoked |-> FALSE, quotaLeft |-> TRUE]
    /\ presented = 0

BaseInit ==
    /\ isRunning = FALSE
    /\ lastRun = << >>
    /\ lastResult = << >>
    /\ clock = 0
    /\ runs = << >>
    /\ started = 0
    /\ store = {}
    /\ trigger = NoTrigger
    /\ settled = NoSettled
    /\ search = << >>
    /\ searches = 0
    /\ normOut = << >>
    /\ request = NoRequest
    /\ response = NoResponse
    /\ AuthIdle

Init ==
    /\ BaseInit
    /\ normIn = RecA

RemoveAt(seq, i) == SubSeq(seq, 1, i - 1) \o SubSeq(seq, i + 1, Len(seq))

(***************************************************************************)
(* The Property table and prisma.property.upsert.                          *)
(***************************************************************************)
\* A row: the data written, its primary key, and the two timestamps the table
\* keeps (createdAt is set when the row is created and is not in the data).
MakeRow(data, id, createdAt, now) ==
    [ id |-> id, createdAt |-> createdAt, externalId |-> data.externalId, source |-> data.source,
      price |-> data.price, pricePerSqm |-> data.pricePerSqm,
      surface |-> data.surface, propertyType |-> data.propertyType,
      transactionType |-> data.transactionType, department |-> data.department,
      region |-> data.region, updatedAt |-> now ]

\* The primary key the database gives a row created without one.
FreshId(s) == <<"db", Cardinality(s) + 1>>

IdTaken(s, id) == \E r \in s : r.id = id

Matching_None(s, externalId) == {}

\* where: { externalId }: the rows the upsert finds.
Matching(s, externalId) == {r \in s : r.externalId = externalId}

\* upsert({ where: { externalId }, update: {...data, updatedAt}, create: data }).
\* idOpt is <<id>> when data carries its own id and << >> when it does not.
\* ok is FALSE when the write breaks the primary key, and the table is then
\* left as it was.
Upsert(s, data, idOpt, now) ==
    LET existing == Matching(s, data.externalId)
    IN  IF existing # {}
          THEN LET old == CHOOSE r \in existing : TRUE
                   newId == IF idOpt = << >> THEN old.id ELSE idOpt[1]
                   clash == IdTaken(s \ existing, newId)
               IN  [ ok |-> ~clash,
                     store |-> IF clash THEN s
                               ELSE (s \ {old}) \cup {MakeRow(data, newId, old.createdAt, now)} ]
          ELSE LET newId == IF idOpt = << >> THEN FreshId(s) ELSE idOpt[1]
                   clash == IdTaken(s, newId)
               IN  [ ok |-> ~clash,
                     store |-> IF clash THEN s
                               ELSE s \cup {MakeRow(data, newId, now, now)} ]

(***************************************************************************)
(* Scheduler.runScraping, the cron callback and POST /scrape.              *)
(***************************************************************************)
AlreadyRunning_Never == FALSE

\* if (this.isRunning)
AlreadyRunning == isRunning

StatusIsRunning_Never == FALSE

\* const status = scheduler.getStatus(); if (status.isRunning)
StatusIsRunning == isRunning

runScrapingIgnored_Resets(kind, reply) ==
    /\ trigger' = [kind |-> kind, busy |-> isRunning, reply |-> reply,
                   began |-> FALSE, ret |-> "null"]
    /\ lastRun' = << >>
    /\ lastResult' = << >>
    /\ UNCHANGED <<isRunning, runs, started>>

\* runScraping when a run is in progress: logs and returns null.
runScrapingIgnored(kind, reply) ==
    /\ trigger' = [kind |-> kind, busy |-> isRunning, reply |-> reply,
                   began |-> FALSE, ret |-> "null"]
    /\ UNCHANGED <<schedulerVars, runs, started>>

\* runScraping when idle: sets the flag and calls scrapeAll, which runs to
\* its first await, the first call of scrapeDepartement.
runScrapingBegins(kind, reply) ==
    /\ started < MaxRuns
    /\ isRunning' = TRUE
    /\ runs' = Append(runs, NewFrame(kind))
    /\ started' = started + 1
    /\ trigger' = [kind |-> kind, busy |-> isRunning, reply |-> reply,
                   began |-> TRUE, ret |-> "pending"]
    /\ UNCHANGED <<lastRun, lastResult>>

runScraping(kind, reply) ==
    IF AlreadyRunning
      THEN runScrapingIgnored(kind, reply)
      ELSE runScrapingBegins(kind, reply)

\* The cron callback: await this.runScraping().
CronFire ==
    /\ runScraping("cron", 0)
    /\ UNCHANGED <<clock, store, settled, searchVars, normVars, authVars, readVars>>

PostScrape_AwaitsRun ==
    /\ IF StatusIsRunning
         THEN /\ trigger' = [kind |-> "post", busy |-> isRunning, reply |-> 409,
                             began |-> FALSE, ret |-> "none"]
              /\ UNCHANGED <<schedulerVars, runs, started>>
         ELSE runScraping("post", 0)
    /\ UNCHANGED <<clock, store, settled, searchVars, normVars, authVars, readVars>>

\* POST /scrape: 409 when the status says a run is in progress; otherwise
\* 202 is sent and runScraping is called without being awaited.
PostScrape ==
    /\ IF StatusIsRunning
         THEN /\ trigger' = [kind |-> "post", busy |-> isRunning, reply |-> 409,
                             began |-> FALSE, ret |-> "none"]
              /\ UNCHANGED <<schedulerVars, runs, started>>
         ELSE runScraping("post", 202)
    /\ UNCHANGED <<clock, store, settled, searchVars, normVars, authVars, readVars>>

runScrapingCatches_KeepsFlag(i) ==
    /\ runs' = RemoveAt(runs, i)
    /\ settled' = [ threw |-> TRUE, ret |-> << >>,
                    fetched |-> runs[i].fetched,
                    allFailed |-> runs[i].failed = Len(runs[i].fetched) ]
    /\ UNCHANGED <<isRunning, lastRun, lastResult>>

runScrapingCatches_RecordsRun(i) ==
    /\ isRunning' = FALSE
    /\ runs' = RemoveAt(runs, i)
    /\ settled' = [ threw |-> TRUE, ret |-> << >>,
                    fetched |-> runs[i].fetched,
                    allFailed |-> runs[i].failed = Len(runs[i].fetched) ]
    /\ lastRun' = <<clock>>
    /\ UNCHANGED lastResult

\* scrapeAll threw: catch logs and returns null, finally clears the flag.
runScrapingCatches(i) ==
    /\ isRunning' = FALSE
    /\ runs' = RemoveAt(runs, i)
    /\ settled' = [ threw |-> TRUE, ret |-> << >>,
                    fetched |-> runs[i].fetched,
                    allFailed |-> runs[i].failed = Len(runs[i].fetched) ]
    /\ UNCHANGED <<lastRun, lastResult>>

runScrapingResolves_KeepsFirst(i, result, now) ==
    /\ lastRun' = <<now>>
    /\ lastResult' = IF lastResult = << >> THEN <<result>> ELSE lastResult
    /\ isRunning' = FALSE
    /\ runs' = RemoveAt(runs, i)
    /\ settled' = [ threw |-> FALSE, ret |-> <<result>>,
                    fetched |-> runs[i].fetched,
                    allFailed |-> runs[i].failed = Len(runs[i].fetched) ]

\* scrapeAll returned result at time now: lastRun and lastResult are set,
\* result is returned, finally clears the flag.
runScrapingResolves(i, result, now) ==
    /\ lastRun' = <<now>>
    /\ lastResult' = <<result>>
    /\ isRunning' = FALSE
    /\ runs' = RemoveAt(runs, i)
    /\ settled' = [ threw |-> FALSE, ret |-> <<result>>,
                    fetched |-> runs[i].fetched,
                    allFailed |-> runs[i].failed = Len(runs[i].fetched) ]

(***************************************************************************)
(* DVFScraper.scrapeAll, one action per await that resolves.               *)
(***************************************************************************)
\* mutations.map(m => this.mutationToProperty(m)).filter(p => p !== null),
\* rnds[k] being what Math.random() gives in the k-th call.
RECURSIVE ConvertPage(_, _, _)
ConvertPage(mutations, now, rnds) ==
    IF mutations = << >>
      THEN << >>
      ELSE mutationToProperty(Head(mutations), now, Head(rnds))
             \o ConvertPage(Tail(mutations), now, Tail(rnds))

pipelineFrame == <<schedulerVars, clock, started, store, trigger, settled, searchVars, normVars, authVars, readVars>>

Accumulate_Discards(i, properties, failedInc) ==
    /\ runs' = [runs EXCEPT ![i] =
                  [@ EXCEPT !.totalProperties = properties,
                            !.pc = "delay",
                            !.failed = @ + failedInc]]
    /\ UNCHANGED pipelineFrame

\* totalProperties = totalProperties.concat(properties); await this.delay(500)
Accumulate(i, properties, failedInc) ==
    /\ runs' = [runs EXCEPT ![i] =
                  [@ EXCEPT !.totalProperties = @ \o properties,
                            !.pc = "delay",
                            !.failed = @ + failedInc]]
    /\ UNCHANGED pipelineFrame

scrapeDepartementCatches_Rethrows(i) ==
    /\ isRunning' = FALSE
    /\ runs' = RemoveAt(runs, i)
    /\ settled' = [ threw |-> TRUE, ret |-> << >>,
                    fetched |-> runs[i].fetched,
                    allFailed |-> runs[i].failed + 1 = Len(runs[i].fetched) ]
    /\ UNCHANGED <<lastRun, lastResult, clock, started, store, trigger, searchVars, normVars, authVars, readVars>>

\* The catch of scrapeDepartement: the error is logged and [] returned.
scrapeDepartementCatches(i) == Accumulate(i, << >>, 1)

\* httpClient.get rejects (network error, timeout, HTTP error status).
FetchError(i) ==
    /\ runs[i].pc = "fetch"
    /\ scrapeDepartementCatches(i)

\* The response has no data or no resultats: [] is returned.
FetchNoData(i) ==
    /\ runs[i].pc = "fetch"
    /\ Accumulate(i, << >>, 0)

\* The response carries the array resultats.
FetchPage(i) ==
    /\ runs[i].pc = "fetch"
    /\ LET pair == PairAt(runs[i].pair)
           mutations == SourceData(pair[1], pair[2])
       IN  \E rnds \in [1..Len(mutations) -> RandomSuffixes] :
             Accumulate(i, ConvertPage(mutations, clock, rnds), 0)

\* resultats is not an array (or holds a null): mutations.map(...) throws
\* in scrapeAll, outside every try of the pipeline.
FetchMalformed(i) ==
    /\ runs[i].pc = "fetch"
    /\ runScrapingCatches(i)
    /\ UNCHANGED <<clock, started, store, trigger, searchVars, normVars, authVars, readVars>>

\* The summary scrapeAll returns.
Summary(f, now) ==
    [ total |-> Len(f.totalProperties), saved |-> f.saved, errors |-> f.errors,
      scrapedAt |-> now ]

NextPairOf(f) == f.pair + 1

\* The delay ends and the loops go on to the next (annee, dep).
DelayThenFetch(i) ==
    /\ runs[i].pc = "delay"
    /\ runs[i].pair < NumPairs
    /\ clock' = clock + 1
    /\ runs' = [runs EXCEPT ![i] =
                  [@ EXCEPT !.pair = NextPairOf(runs[i]),
                            !.pc = "fetch",
                            !.fetched = Append(@, PairAt(NextPairOf(runs[i])))]]
    /\ UNCHANGED <<schedulerVars, started, store, trigger, settled, searchVars, normVars, authVars, readVars>>

DelayThenSave_AfterAnyPair(i) ==
    /\ runs[i].pc = "delay"
    /\ runs[i].totalProperties # << >>
    /\ clock' = clock + 1
    /\ runs' = [runs EXCEPT ![i] = [@ EXCEPT !.pc = "save", !.saveIdx = 1]]
    /\ UNCHANGED <<schedulerVars, started, store, trigger, settled, searchVars, normVars, authVars, readVars>>

\* The last delay ends and saveProperties starts its first upsert.
DelayThenSave(i) ==
    /\ runs[i].pc = "delay"
    /\ runs[i].pair = NumPairs
    /\ runs[i].totalProperties # << >>
    /\ clock' = clock + 1
    /\ runs' = [runs EXCEPT ![i] = [@ EXCEPT !.pc = "save", !.saveIdx = 1]]
    /\ UNCHANGED <<schedulerVars, started, store, trigger, settled, searchVars, normVars, authVars, readVars>>

\* The last delay ends with nothing to save: saveProperties returns
\* {saved: 0, errors: 0} and scrapeAll its summary.
DelayThenReturn(i) ==
    /\ runs[i].pc = "delay"
    /\ runs[i].pair = NumPairs
    /\ runs[i].totalProperties = << >>
    /\ clock' = clock + 1
    /\ runScrapingResolves(i, Summary(runs[i], clock + 1), clock + 1)
    /\ UNCHANGED <<started, store, trigger, searchVars, normVars, authVars, readVars>>

\* After the upsert of totalProperties[saveIdx]: the next one, or the end of
\* saveProperties and of scrapeAll.
AfterUpsert(i, f) ==
    IF f.saveIdx < Len(f.totalProperties)
      THEN /\ runs' = [runs EXCEPT ![i] = [f EXCEPT !.saveIdx = @ + 1]]
           /\ UNCHANGED <<schedulerVars, settled>>
      ELSE runScrapingResolves(i, Summary(f, clock), clock)

\* prisma.property.upsert resolves: saved++.
UpsertSaved(i) ==
    /\ runs[i].pc = "save"
    /\ LET prop == runs[i].totalProperties[runs[i].saveIdx]
           res == Upsert(store, prop, << >>, clock)
       IN  /\ res.ok
           /\ store' = res.store
           /\ AfterUpsert(i, [runs[i] EXCEPT !.saved = @ + 1])
    /\ UNCHANGED <<clock, started, trigger, searchVars, normVars, authVars, readVars>>

UpsertFailed_NotCounted(i) ==
    /\ runs[i].pc = "save"
    /\ AfterUpsert(i, runs[i])
    /\ UNCHANGED <<clock, started, store, trigger, searchVars, normVars, authVars, readVars>>

UpsertFailed_Fatal(i) ==
    /\ runs[i].pc = "save"
    /\ runScrapingCatches(i)
    /\ UNCHANGED <<clock, started, store, trigger, searchVars, normVars, authVars, readVars>>

\* prisma.property.upsert rejects (a constraint, the connection): errors++.
UpsertFailed(i) ==
    /\ runs[i].pc = "save"
    /\ AfterUpsert(i, [runs[i] EXCEPT !.errors = @ + 1])
    /\ UNCHANGED <<clock, started, store, trigger, searchVars, normVars, authVars, readVars>>

(***************************************************************************)
(* PropertyScraper.search: demo data, each item upserted in turn.          *)
(***************************************************************************)
DemoSuffixes == {<<"A">>, <<"B">>}

\* The i-th property generateDemoData makes at time now.
DemoProp(now, i, rnd) ==
    [ id |-> <<"demo", now, i>>, externalId |-> Str(<<"E", "X", "T">> \o rnd),
      source |-> "demo", price |-> Num(300000),
      pricePerSqm |-> Num(RoundDiv(300000, 60)), surface |-> Num(60),
      propertyType |-> Txt("appartement"), transactionType |-> "vente",
      department |-> Txt("75"), region |-> Txt("Ile-de-France") ]

DemoBatches(now) ==
    {<<DemoProp(now, 0, r)>> : r \in DemoSuffixes}
      \cup {<<DemoProp(now, 0, r[1]), DemoProp(now, 1, r[2])>> : r \in DemoSuffixes \X DemoSuffixes}

\* search(params): the data is generated and the first upsert awaited.
SearchCall ==
    /\ search = << >>
    /\ searches < MaxSearches
    /\ searches' = searches + 1
    /\ \E batch \in DemoBatches(clock) : search' = batch
    /\ UNCHANGED <<schedulerVars, clock, runs, started, store, trigger, settled, normVars, authVars, readVars>>

\* An upsert of search resolves.
SearchUpsertSaved ==
    /\ search # << >>
    /\ LET prop == Head(search)
           res == Upsert(store, prop, <<prop.id>>, clock)
       IN  /\ res.ok
           /\ store' = res.store
    /\ search' = Tail(search)
    /\ UNCHANGED <<schedulerVars, clock, runs, started, trigger, settled, searches, normVars, authVars, readVars>>

\* An upsert of search rejects: the error is swallowed.
SearchUpsertFailed ==
    /\ search # << >>
    /\ search' = Tail(search)
    /\ UNCHANGED <<schedulerVars, clock, runs, started, store, trigger, settled, searches, normVars, authVars, readVars>>

(***************************************************************************)
(* Scheduler.getStatus and getNextRun.  A wall-clock instant is a record   *)
(* of the local day (counted from some day 0), hours, minutes, seconds and *)
(* milliseconds, as the Date getters and setters see it.                   *)
(***************************************************************************)
MakeDate(day, hours, minutes, seconds, ms) ==
    [day |-> day, hours |-> hours, minutes |-> minutes, seconds |-> seconds, ms |-> ms]

\* Math.ceil(a / b) for naturals a and b > 0.
MathCeilDiv(a, b) == (a + b - 1) \div b

getNextRun_SameSlot(now) ==
    LET hours == now.hours
        nextHour == MathCeilDiv(hours, 6) * 6
    IN  IF nextHour >= 24
          THEN MakeDate(now.day + 1, 0, 0, 0, 0)
          ELSE MakeDate(now.day, nextHour, 0, 0, 0)

\* now is the value of new Date().
getNextRun(now) ==
    LET hours == now.hours
        nextHour == MathCeilDiv(hours + 1, 6) * 6
    IN  IF nextHour >= 24
          THEN MakeDate(now.day + 1, 0, 0, 0, 0)
          ELSE MakeDate(now.day, nextHour, 0, 0, 0)

\* jobs is this.jobs.length: start() has registered the one cron job.
getStatus(now) ==
    [ isRunning |-> isRunning, lastRun |-> lastRun, lastResult |-> lastResult,
      nextRun |-> getNextRun(now), jobs |-> Len(<<"scrapingJob">>) ]

\* The instants at which the status is asked: every hour of a day, at its
\* first and at its last millisecond.
WallTimes ==
    {MakeDate(0, h, o[1], o[2], o[3]) : h \in 0..23, o \in {<<0, 0, 0>>, <<59, 59, 999>>}}

\* scheduler.getStatus() called at some instant (GET /status).
GetStatus ==
    /\ \E now \in WallTimes :
         /\ request' = [route |-> "status", now |-> now]
         /\ response' = [route |-> "status", status |-> getStatus(now)]
    /\ UNCHANGED <<schedulerVars, clock, runs, started, store, trigger, settled,
                   searchVars, normVars, authVars>>

(***************************************************************************)
(* PropertyScraper.getMarketStats.  Numbers that need not be integers (an  *)
(* average, a median) are fractions [num, den] until Math.round is applied.*)
(***************************************************************************)
\* The elements of a finite set, in some order: the order in which findMany
\* returns rows is not specified, and nothing below depends on it.
RECURSIVE SetToSeq(_)
SetToSeq(S) ==
    IF S = {}
      THEN << >>
      ELSE LET x == CHOOSE y \in S : TRUE
           IN  <<x>> \o SetToSeq(S \ {x})

\* x put at its place in the ascending sequence sorted.
RECURSIVE InsertAsc(_, _)
InsertAsc(x, sorted) ==
    IF sorted = << >> \/ x <= Head(sorted)
      THEN <<x>> \o sorted
      ELSE <<Head(sorted)>> \o InsertAsc(x, Tail(sorted))

\* [...arr].sort((a, b) => a - b)
RECURSIVE SortAsc(_)
SortAsc(arr) ==
    IF arr = << >> THEN << >> ELSE InsertAsc(Head(arr), SortAsc(Tail(arr)))

\* arr.reduce((a, b) => a + b, 0)
RECURSIVE SumOf(_)
SumOf(arr) == IF arr = << >> THEN 0 ELSE Head(arr) + SumOf(Tail(arr))

Fraction(num, den) == [num |-> num, den |-> den]

\* Math.round of a fraction with a positive denominator.
MathRound(q) == RoundDiv(q.num, q.den)

\* const avg = arr => arr.length ? sum / arr.length : 0
avg(arr) == IF Len(arr) # 0 THEN Fraction(SumOf(arr), Len(arr)) ELSE Fraction(0, 1)

\* const median = arr => ...; sorted[mid] of the code is sorted[mid + 1] here,
\* sequences being indexed from 1.
median(arr) ==
    IF Len(arr) = 0
      THEN Fraction(0, 1)
      ELSE LET sorted == SortAsc(arr)
               mid == Len(sorted) \div 2
           IN  IF Len(sorted) % 2 # 0
                 THEN Fraction(sorted[mid + 1], 1)
                 ELSE Fraction(sorted[mid] + sorted[mid + 1], 2)

\* properties.map(p => p[field]).filter(Boolean), as numbers.
RECURSIVE TruthyNumbers(_)
TruthyNumbers(values) ==
    IF values = << >>
      THEN << >>
      ELSE (IF Truthy(Head(values)) THEN <<Head(values)[2]>> ELSE << >>)
             \o TruthyNumbers(Tail(values))

\* Math.min(...arr) and Math.max(...arr); of no argument they are +Infinity
\* and -Infinity.
MathMin(arr) ==
    IF arr = << >> THEN <<"Infinity">> ELSE Num(SortAsc(arr)[1])

MathMax(arr) ==
    IF arr = << >> THEN <<"-Infinity">> ELSE Num(SortAsc(arr)[Len(arr)])

\* The min, max, avg and median reported for one column.
ColumnStats(arr) ==
    [ min |-> MathMin(arr), max |-> MathMax(arr),
      avg |-> MathRound(avg(arr)), median |-> MathRound(median(arr)) ]

\* The rows findMany({ where }) returns: a filter applies when its parameter
\* is truthy.
StatsWhere(s, params) ==
    {r \in s : /\ Truthy(params.department) => r.department = params.department
               /\ Truthy(params.propertyType) => r.propertyType = params.propertyType}

getMarketStats(s, params) ==
    LET properties == SetToSeq(StatsWhere(s, params))
        prices == TruthyNumbers([k \in 1..Len(properties) |-> properties[k].price])
        pricesPerSqm == TruthyNumbers([k \in 1..Len(properties) |-> properties[k].pricePerSqm])
        surfaces == TruthyNumbers([k \in 1..Len(properties) |-> properties[k].surface])
    IN  IF Len(properties) = 0
          THEN [count |-> 0]
          ELSE [ count |-> Len(properties),
                 price |-> ColumnStats(prices),
                 pricePerSqm |-> ColumnStats(pricesPerSqm),
                 surface |-> ColumnStats(surfaces) ]

\* A stored row with the columns the statistics read.
StatRow(k, price, surface, type, dep) ==
    MakeRow([ externalId |-> Str(<<"S", Digits[k + 1]>>), source |-> "dvf_gouv",
              price |-> price, pricePerSqm |-> MathRoundDiv(price, surface),
              surface |-> surface, propertyType |-> Txt(type),
              transactionType |-> "vente", department |-> Txt(dep),
              region |-> getRegionFromDepartement(Txt(dep)) ],
            <<"db", k>>, 0, 0)

\* The rows the table may hold when the statistics are asked.
StatRows ==
    { StatRow(1, Num(100000), Num(50), "appartement", "75"),
      StatRow(2, Num(100001), Num(40), "maison", "75"),
      StatRow(3, Num(300000), Num(75), "appartement", "92"),
      StatRow(4, Num(250000), Num(70), "appartement", "75"),
      StatRow(5, Num(120000), Null, "maison", "92") }

StatParams ==
    [ department : {Undef, Txt("75")}, propertyType : {Undef, Txt("appartement")} ]

\* The state of an idle server whose table holds the rows s.
IdleWith(s) ==
    /\ isRunning = FALSE
    /\ lastRun = << >>
    /\ lastResult = << >>
    /\ clock = 0
    /\ runs = << >>
    /\ started = 0
    /\ store = s
    /\ trigger = NoTrigger
    /\ settled = NoSettled
    /\ search = << >>
    /\ searches = 0
    /\ normIn = RecA
    /\ normOut = << >>
    /\ request = NoRequest
    /\ response = NoResponse
    /\ AuthIdle

InitStats == \E s \in SUBSET StatRows : IdleWith(s)

\* GET /market: scraper.getMarketStats(params).
GetMarketStats ==
    /\ \E params \in StatParams :
         /\ request' = [route |-> "market", params |-> params]
         /\ response' = [route |-> "market", stats |-> getMarketStats(store, params)]
    /\ UNCHANGED <<schedulerVars, clock, runs, started, store, trigger, settled,
                   searchVars, normVars, authVars>>

SpecStats == InitStats /\ [][GetMarketStats]_vars

(***************************************************************************)
(* GET /price-distribution.  The bucket edges are computed in IEEE 754      *)
(* double precision, so the arithmetic is modelled bit for bit.  A         *)
(* non-negative binary number is [int, frac]: its integer part and its     *)
(* fraction as NumLimbs digits of LimbBits bits each, frac[k] weighing     *)
(* LimbBase^-k.  A double keeps DoublePrecision significant bits and every *)
(* operation rounds its exact result to nearest, ties to even.             *)
(***************************************************************************)
DoublePrecision == 53
LimbBits == 15
NumLimbs == 4
LimbBase == 2^LimbBits

\* The number of bits of a natural number: 0 for 0.
RECURSIVE BitLen(_)
BitLen(n) == IF n = 0 THEN 0 ELSE 1 + BitLen(n \div 2)

\* The number of zero bits before the first one of a fraction.
RECURSIVE LeadingZeros(_)
LeadingZeros(limbs) ==
    IF limbs = << >>
      THEN 0
      ELSE IF Head(limbs) # 0
             THEN LimbBits - BitLen(Head(limbs))
             ELSE LimbBits + LeadingZeros(Tail(limbs))

\* Digits that may exceed LimbBase brought back below it: the digits and
\* the carry into the integer part.
RECURSIVE CarryLimbs(_)
CarryLimbs(limbs) ==
    IF limbs = << >>
      THEN [limbs |-> << >>, carry |-> 0]
      ELSE LET low == CarryLimbs(Tail(limbs))
               t == Head(limbs) + low.carry
           IN  [limbs |-> <<t % LimbBase>> \o low.limbs, carry |-> t \div LimbBase]

\* The double nearest to the binary number v: keep is the number of bits of
\* the fraction a double has room for, unit the weight, within its digit, of
\* the last bit kept.
RoundToDouble(v) ==
    LET keep == IF v.int > 0
                  THEN DoublePrecision - BitLen(v.int)
                  ELSE LeadingZeros(v.frac) + DoublePrecision
    IN  IF keep >= NumLimbs * LimbBits
          THEN v
          ELSE LET whole == keep \div LimbBits
                   unit == 2^(LimbBits - (keep % LimbBits))
                   x == v.frac[whole + 1]
                   rest == x % unit
                   half == rest \div (unit \div 2) = 1
                   sticky == \/ rest % (unit \div 2) # 0
                             \/ \E k \in (whole + 2)..NumLimbs : v.frac[k] # 0
                   truncated == [k \in 1..NumLimbs |->
                                   IF k <= whole THEN v.frac[k]
                                   ELSE IF k = whole + 1 THEN x - rest ELSE 0]
                   odd == IF unit < LimbBase THEN ((x - rest) \div unit) % 2 = 1
                          ELSE IF whole > 0 THEN v.frac[whole] % 2 = 1
                          ELSE v.int % 2 = 1
                   up == CarryLimbs([truncated EXCEPT ![whole + 1] = @ + unit])
               IN  IF half /\ (sticky \/ odd)
                     THEN [int |-> v.int + up.carry, frac |-> up.limbs]
                     ELSE [int |-> v.int, frac |-> truncated]

\* The first count digits of the fraction r / n (r < n); the last one is
\* made odd when digits that are not zero remain, which rounding then sees.
RECURSIVE FracLimbsOf(_, _, _)
FracLimbsOf(r, n, count) ==
    LET q == (r * LimbBase) \div n
        rem == (r * LimbBase) % n
    IN  IF count = 1
          THEN <<IF rem # 0 /\ q % 2 = 0 THEN q + 1 ELSE q>>
          ELSE <<q>> \o FracLimbsOf(rem, n, count - 1)

\* d / n in doubles, for naturals d and n with 0 < n < 32: the quotient has
\* fewer than five zeros before its first significant bit.
DoubleDiv(d, n) ==
    RoundToDouble([int |-> d \div n, frac |-> FracLimbsOf(d % n, n, NumLimbs)])

\* i * v in doubles, i a natural number below 32.
DoubleMulInt(i, v) ==
    LET product == CarryLimbs([k \in 1..NumLimbs |-> v.frac[k] * i])
    IN  RoundToDouble([int |-> v.int * i + product.carry, frac |-> product.limbs])

\* m + v in doubles, m a natural number.
DoubleAddInt(m, v) == RoundToDouble([int |-> m + v.int, frac |-> v.frac])

\* p >= v, p < v and p <= v for an integer p.
GeDouble(p, v) == p > v.int \/ (p = v.int /\ \A k \in 1..NumLimbs : v.frac[k] = 0)
LtDouble(p, v) == ~GeDouble(p, v)
LeDouble(p, v) == p <= v.int

\* Math.round(v)
RoundDouble(v) == v.int + (IF v.frac[1] >= LimbBase \div 2 THEN 1 ELSE 0)

\* The rows findMany({ where }) returns: transactionType (by default 'vente'),
\* a price that is not null, and the department when one is given.
DistWhere(s, query) ==
    {r \in s : /\ r.transactionType = "vente"
               /\ ~IsNull(r.price)
               /\ Truthy(query.department) => r.department = query.department}

\* The data of the response: per bucket its rounded range and its count (the
\* percentage is left out).
priceDistribution(s, query) ==
    LET properties == SetToSeq(DistWhere(s, query))
        prices == SortAsc([k \in 1..Len(properties) |-> properties[k].price[2]])
        buckets == query.buckets
        min == prices[1]
        max == prices[Len(prices)]
        bucketSize == DoubleDiv(max - min, buckets)
        edge == [i \in 0..buckets |-> DoubleAddInt(min, DoubleMulInt(i, bucketSize))]
    IN  IF Len(properties) = 0
          THEN << >>
          ELSE [ n \in 1..buckets |->
                 LET i == n - 1
                     bucketMin == edge[i]
                     bucketMax == edge[i + 1]
                 IN  [ range |-> [min |-> RoundDouble(bucketMin), max |-> RoundDouble(bucketMax)],
                       count |-> Cardinality(
                         {k \in 1..Len(prices) :
                            /\ GeDouble(prices[k], bucketMin)
                            /\ IF i = buckets - 1
                                 THEN LeDouble(prices[k], bucketMax)
                                 ELSE LtDouble(prices[k], bucketMax)}) ] ]

\* The rows the table may hold when the distribution is asked.
DistRows ==
    { StatRow(1, Num(100000), Num(50), "appartement", "75"),
      StatRow(2, Num(100000), Num(40), "maison", "75"),
      StatRow(3, Num(180000), Num(75), "appartement", "92"),
      StatRow(4, Num(500000), Num(70), "appartement", "75"),
      StatRow(5, Null, Num(45), "maison", "92") }

\* buckets is an integer from 5 to 20 (the schema of the route), 10 by default.
DistQueries == [department : {Undef, Txt("75")}, buckets : {5, 10, 11, 20}]

InitDist == \E s \in SUBSET DistRows : IdleWith(s)

GetPriceDistribution ==
    /\ \E query \in DistQueries :
         /\ request' = [route |-> "distribution", query |-> query]
         /\ response' = [route |-> "distribution", data |-> priceDistribution(store, query)]
    /\ UNCHANGED <<schedulerVars, clock, runs, started, store, trigger, settled,
                   searchVars, normVars, authVars>>

SpecDist == InitDist /\ [][GetPriceDistribution]_vars

(***************************************************************************)
(* POST /geo.  Latitudes are counted in units of 10^-5 degree, and the      *)
(* stored points lie on the meridian of the center: dLon is then 0, a is   *)
(* sin^2(dLat / 2), c is |dLat| in radians and distance is                 *)
(* 6371 * |dLat| * PI / 180 km, which is MetresPerDegree metres for each   *)
(* degree (to the nearest metre).                                          *)
(***************************************************************************)
MetresPerDegree == 111195
DegreeUnits == 10^5

\* |p.latitude - latitude|
LatitudeGap(p, body) ==
    IF p.latitude >= body.latitude
      THEN p.latitude - body.latitude
      ELSE body.latitude - p.latitude

\* Math.round(distance * 100): the distance in units of 10 m, rounded.
RoundedDistance(p, body) ==
    RoundDiv(LatitudeGap(p, body) * MetresPerDegree, 10 * DegreeUnits)

\* The where of findMany: latitude within radiusKm / 111 degrees of the
\* center; the longitude of the center is within any lonDelta of itself.
InBoundingBox(p, body) ==
    /\ LatitudeGap(p, body) * 111 <= body.radiusKm * DegreeUnits
    /\ p.longitude = body.longitude

\* A stored row with the columns the route reads.
GeoRow(k, latitude) == [id |-> <<"db", k>>, latitude |-> latitude, longitude |-> 235000]

\* The center of the searches: 48.85 N, 2.35 E.
GeoCenter == GeoRow(0, 4885000)

\* The rows the table may hold: at the center, and 0.0045, 0.009 and 0.02
\* degree away from it.
GeoRows ==
    { GeoRow(1, GeoCenter.latitude), GeoRow(2, GeoCenter.latitude + 450),
      GeoRow(3, GeoCenter.latitude + 900), GeoRow(4, GeoCenter.latitude - 2000) }

GeoBodies ==
    [ latitude : {GeoCenter.latitude}, longitude : {GeoCenter.longitude},
      radiusKm : {1, 5}, limit : {Undef, Num(1), Num(2)} ]

InitGeo == \E s \in SUBSET GeoRows : IdleWith(s)

\* POST /geo: findMany returns at most take rows of the bounding box, which
\* ones is not specified (there is no orderBy); those whose rounded distance
\* is within the radius are returned, the nearest first.
PostGeo ==
    /\ \E body \in GeoBodies :
         LET box == {p \in store : InBoundingBox(p, body)}
             take == JsOr(body.limit, Num(20))[2]
         IN  \E properties \in SUBSET box :
               /\ Cardinality(properties) = IF Cardinality(box) < take THEN Cardinality(box) ELSE take
               /\ LET withDistance ==
                         {[id |-> p.id, distance100 |-> RoundedDistance(p, body)] : p \in properties}
                       kept == {p \in withDistance : p.distance100 <= body.radiusKm * 100}
                   IN  \E data \in [1..Cardinality(kept) -> kept] :
                         /\ \A j, k \in DOMAIN data :
                              /\ j # k => data[j] # data[k]
                              /\ j < k => data[j].distance100 <= data[k].distance100
                         /\ request' = [route |-> "geo", body |-> body]
                         /\ response' = [route |-> "geo", data |-> data]
    /\ UNCHANGED <<schedulerVars, clock, runs, started, store, trigger, settled,
                   searchVars, normVars, authVars>>

SpecGeo == InitGeo /\ [][PostGeo]_vars

(***************************************************************************)
(* The normalizer on its own: mutationToProperty called on one raw record  *)
(* at several times and with several random draws.                         *)
(***************************************************************************)
\* Calls of the normalizer on the record, and how far the clock runs.
MaxCalls == 2
MaxNormClock == 1

PriceInputs ==
    { Undef, Null, Num(0), Num(0 - 5), Num(MIN_PRICE - 1), Num(MIN_PRICE),
      Num(250000), Num(MAX_PRICE), Num(MAX_PRICE + 1),
      Str(<< >>), Str(<<"0">>), Str(<<"-", "5">>), Str(<<"a", "b", "c">>),
      Str(<<"9", "9", "9", "9">>), Str(<<"1", "0", "0", "0", "0">>),
      Str(Chars250000), Str(Chars250000 \o <<"e", "u", "r">>) }

SurfaceInputs ==
    { Undef, Null, Num(0), Num(0 - 1), Num(MIN_SURFACE - 1), Num(MIN_SURFACE),
      Num(32), Num(70), Num(MAX_SURFACE), Num(MAX_SURFACE + 1),
      Str(<< >>), Str(<<"0">>), Str(<<"7", "0">>), Str(<<"m", "2">>) }

IdInputs == {Undef, Str(<<"m", "7">>), Num(7)}

TypeInputs == {Undef, Txt("Appartement"), Txt("Dependance"), Txt("Terrain")}

DepartementInputs == {Undef, Txt("75"), Txt("99")}

NormInputs ==
    [ id_mutation : IdInputs, valeur_fonciere : PriceInputs,
      surface_reelle_bati : SurfaceInputs, type_local : TypeInputs,
      code_departement : DepartementInputs ]

InitNorm ==
    /\ BaseInit
    /\ normIn \in NormInputs

\* One call of mutationToProperty(normIn), as scrapeAll makes it: the result
\* goes through filter(p => p !== null), so what is kept is << >> or <<entity>>.
NormCall ==
    /\ Len(normOut) < MaxCalls
    /\ \E rnd \in RandomSuffixes :
         normOut' = Append(normOut, ConvertPage(<<normIn>>, clock, <<rnd>>))
    /\ UNCHANGED <<schedulerVars, clock, runs, started, store, trigger, settled,
                   searchVars, normIn, authVars, readVars>>

\* Time passes between two calls.
NormTick ==
    /\ clock < MaxNormClock
    /\ clock' = clock + 1
    /\ UNCHANGED <<schedulerVars, runs, started, store, trigger, settled,
                   searchVars, normVars, authVars, readVars>>

NextNorm ==
    \/ NormCall
    \/ NormTick

SpecNorm == InitNorm /\ [][NextNorm]_vars

(***************************************************************************)
(* The specification of the scheduler and the pipeline.                    *)
(***************************************************************************)
Next ==
    \/ CronFire
    \/ PostScrape
    \/ \E i \in 1..Len(runs) : FetchError(i)
    \/ \E i \in 1..Len(runs) : FetchNoData(i)
    \/ \E i \in 1..Len(runs) : FetchPage(i)
    \/ \E i \in 1..Len(runs) : FetchMalformed(i)
    \/ \E i \in 1..Len(runs) : DelayThenFetch(i)
    \/ \E i \in 1..Len(runs) : DelayThenSave(i)
    \/ \E i \in 1..Len(runs) : DelayThenReturn(i)
    \/ \E i \in 1..Len(runs) : UpsertSaved(i)
    \/ \E i \in 1..Len(runs) : UpsertFailed(i)

Spec == Init /\ [][Next]_vars

\* A step of a run in flight.  Every await of the pipeline settles: the HTTP
\* client has a timeout, the delay is a timer, the database answers.
RunStep ==
    \E i \in 1..Len(runs) :
      \/ FetchError(i)
      \/ FetchNoData(i)
      \/ FetchPage(i)
      \/ FetchMalformed(i)
      \/ DelayThenFetch(i)
      \/ DelayThenSave(i)
      \/ DelayThenReturn(i)
      \/ UpsertSaved(i)
      \/ UpsertFailed(i)

FairSpec == Init /\ [][Next]_vars /\ WF_vars(RunStep)

(***************************************************************************)
(* The status asked at any moment of the life of the scheduler: runs are   *)
(* started by the timer and manually, and end by returning or by throwing. *)
(***************************************************************************)
NextStatus ==
    \/ CronFire
    \/ PostScrape
    \/ \E i \in 1..Len(runs) : FetchError(i)
    \/ \E i \in 1..Len(runs) : FetchMalformed(i)
    \/ \E i \in 1..Len(runs) : DelayThenFetch(i)
    \/ \E i \in 1..Len(runs) : DelayThenReturn(i)
    \/ GetStatus

SpecStatus == Init /\ [][NextStatus]_vars

(***************************************************************************)
(* The store under the pipeline and the search route together: runs are    *)
(* started by the timer and the source answers every call.                 *)
(***************************************************************************)
NextStore ==
    \/ CronFire
    \/ \E i \in 1..Len(runs) : FetchPage(i)
    \/ \E i \in 1..Len(runs) : DelayThenFetch(i)
    \/ \E i \in 1..Len(runs) : DelayThenSave(i)
    \/ \E i \in 1..Len(runs) : UpsertSaved(i)
    \/ \E i \in 1..Len(runs) : UpsertFailed(i)
    \/ SearchCall
    \/ SearchUpsertSaved
    \/ SearchUpsertFailed

SpecStore == Init /\ [][NextStore]_vars

(***************************************************************************)
(* GET /trends.  scrapedAt is a count of days since 1970-01-01: the server *)
(* runs in UTC, where the time of day plays no part in the period key.     *)
(***************************************************************************)
\* The fields of new Date(t): getFullYear(), getMonth() (0 for January),
\* getDate() and getDay() (0 for Sunday), by the calendar arithmetic of the
\* language.
DateFields(t) ==
    LET z == t + 719468
        era == z \div 146097
        doe == z - era * 146097
        yoe == (doe - doe \div 1460 + doe \div 36524 - doe \div 146096) \div 365
        doy == doe - (365 * yoe + yoe \div 4 - yoe \div 100)
        mp == (5 * doy + 2) \div 153
    IN  [ getFullYear |-> yoe + era * 400 + (IF mp < 10 THEN 0 ELSE 1),
          getMonth |-> IF mp < 10 THEN mp + 2 ELSE mp - 10,
          getDate |-> doy - (153 * mp + 2) \div 5 + 1,
          getDay |-> (t + 4) % 7 ]

\* String(n).padStart(2, '0')
padStart2(n) == IF n < 10 THEN <<"0">> \o NatToChars(n) ELSE NatToChars(n)

\* new Date(t).toISOString().split('T')[0]: "YYYY-MM-DD".
toISODate(t) ==
    LET d == DateFields(t)
    IN  Str(NatToChars(d.getFullYear) \o <<"-">> \o padStart2(d.getMonth + 1)
              \o <<"-">> \o padStart2(d.getDate))

\* The key of the period of scrapedAt = t.  setDate(n) moves the date by
\* n - getDate() days, so weekStart is getDay() days before t.
periodKey(period, t) ==
    LET date == DateFields(t)
    IN  CASE period = "week" -> toISODate(t - date.getDay)
          [] period = "month" ->
               Str(NatToChars(date.getFullYear) \o <<"-">> \o padStart2(date.getMonth + 1))
          [] OTHER ->
               Str(NatToChars(date.getFullYear) \o <<"-", "Q">>
                     \o NatToChars(date.getMonth \div 3 + 1))

\* The rows findMany({ where }) returns: transactionType always, department
\* when one is given.
TrendsWhere(s, query) ==
    {r \in s : /\ r.transactionType = query.transactionType
               /\ Truthy(query.department) => r.department = query.department}

\* The data of the response: the rows are taken in the order of scrapedAt,
\* and a group is made the first time its key is met.
trends(s, query) ==
    LET RECURSIVE OrderBy(_)
        OrderBy(S) ==
          IF S = {}
            THEN << >>
            ELSE LET x == CHOOSE y \in S : \A w \in S : y.scrapedAt <= w.scrapedAt
                 IN  <<x>> \o OrderBy(S \ {x})
        properties == OrderBy(TrendsWhere(s, query))
        keyOf(k) == periodKey(query.period, properties[k].scrapedAt)
        firsts == SelectSeq([k \in 1..Len(properties) |-> k],
                            LAMBDA k : \A j \in 1..(k - 1) : keyOf(j) # keyOf(k))
    IN  [ n \in 1..Len(firsts) |->
          LET members == SelectSeq([k \in 1..Len(properties) |-> k],
                                   LAMBDA k : keyOf(k) = keyOf(firsts[n]))
              prices == TruthyNumbers([m \in 1..Len(members) |-> properties[members[m]].price])
              pricesPerSqm == TruthyNumbers([m \in 1..Len(members) |-> properties[members[m]].pricePerSqm])
          IN  [ period |-> keyOf(firsts[n]),
                avgPrice |-> MathRound(avg(prices)),
                avgPricePerSqm |-> MathRound(avg(pricesPerSqm)),
                listingsCount |-> Len(prices) ] ]

\* The rows the table may hold when the trends are asked: scraped on
\* Saturday 2024-01-06, Sunday 2024-01-07, Monday 2024-01-08 (two rows),
\* Wednesday 2024-02-14 (a row whose price is null) and Monday 2024-04-01.
TrendRows ==
    { [StatRow(k[1], k[2], Num(50), "appartement", k[3])
         EXCEPT !.transactionType = k[4],
                !.pricePerSqm = IF IsNull(k[2]) THEN Null ELSE @]
        @@ [scrapedAt |-> k[5]] :
      k \in { <<1, Num(100000), "75", "vente", 19728>>,
              <<2, Num(200000), "75", "vente", 19729>>,
              <<3, Num(300000), "92", "vente", 19730>>,
              <<4, Num(1200), "75", "location", 19730>>,
              <<5, Null, "75", "vente", 19767>>,
              <<6, Num(150000), "75", "vente", 19814>> } }

TrendQueries ==
    [ period : {"week", "month", "quarter"}, transactionType : {"vente", "location"},
      department : {Undef, Txt("75")} ]

InitTrends == \E s \in SUBSET TrendRows : IdleWith(s)

GetTrends ==
    /\ \E query \in TrendQueries :
         /\ request' = [route |-> "trends", query |-> query]
         /\ response' = [route |-> "trends", data |-> trends(store, query)]
    /\ UNCHANGED <<schedulerVars, clock, runs, started, store, trigger, settled,
                   searchVars, normVars, authVars>>

SpecTrends == InitTrends /\ [][GetTrends]_vars

(***************************************************************************)
(* authMiddleware, its key cache and DELETE /keys/:keyId, for requests     *)
(* that present one well-formed API key.  The key has a row in the ApiKey  *)
(* table and its user a subscription whose period has not ended.  A query  *)
(* is answered by the database at one moment and its await resumes at a    *)
(* later one.                                                              *)
(***************************************************************************)
\* Requests that present the key in one behaviour, and how long the clock
\* runs, in lifetimes of a cache entry.
MaxRequests == 3
MaxTtls == 2

\* 5 * 60 * 1000 ms, in units of the pipeline's delay (500 ms).
CACHE_TTL == (5 * 60 * 1000) \div 500

\* What the observer notes of a request when it arrives: whether the
\* revocation of the key had returned, and whether the quota had room.
Arrival ==
    [ revoked |-> deletion = "returned",
      quotaLeft |-> subscription.requestsUsed < subscription.plan.requestsLimit ]

\* authMiddleware up to its first await.  A cache entry younger than
\* CACHE_TTL authenticates the request at once; otherwise an entry too old
\* is deleted and findUnique is sent.
authMiddlewareBegins ==
    /\ presented < MaxRequests
    /\ presented' = presented + 1
    /\ IF keyCache # << >> /\ clock - keyCache[1].timestamp < CACHE_TTL
         THEN /\ served' = [status |-> 200, cached |-> TRUE] @@ Arrival
              /\ UNCHANGED <<keyCache, authCalls>>
         ELSE /\ keyCache' = << >>
              /\ authCalls' = Append(authCalls, [pc |-> "findUnique", key |-> << >>] @@ Arrival)
              /\ UNCHANGED served
    /\ UNCHANGED <<apiKeyRow, subscription, increments, deletion>>
    /\ UNCHANGED <<schedulerVars, clock, runs, started, store, trigger, settled,
                   searchVars, normVars, readVars>>

\* The database answers findUnique({ where: { key: apiKey }, include }).
findUniqueAnswers(i) ==
    /\ authCalls[i].pc = "findUnique"
    /\ authCalls' = [authCalls EXCEPT ![i] =
                       [@ EXCEPT !.pc = "resume",
                                 !.key = <<[ isActive |-> apiKeyRow.isActive,
                                             subscription |-> subscription ]>>]]
    /\ UNCHANGED <<keyCache, apiKeyRow, subscription, increments, deletion, served, presented>>
    /\ UNCHANGED <<schedulerVars, clock, runs, started, store, trigger, settled,
                   searchVars, normVars, readVars>>

\* authMiddleware after await findUnique: 403 for a key that is not active,
\* 429 when the quota is used up; otherwise the increment of requestsUsed is
\* sent without being awaited, the key is put in the cache and the request
\* goes on to its handler.
authMiddlewareResumes(i) ==
    /\ authCalls[i].pc = "resume"
    /\ LET key == authCalls[i].key[1]
           note == [revoked |-> authCalls[i].revoked, quotaLeft |-> authCalls[i].quotaLeft]
       IN  CASE ~key.isActive ->
                  /\ served' = [status |-> 403, cached |-> FALSE] @@ note
                  /\ UNCHANGED <<keyCache, increments>>
             [] key.isActive /\ key.subscription.requestsUsed >= key.subscription.plan.requestsLimit ->
                  /\ served' = [status |-> 429, cached |-> FALSE] @@ note
                  /\ UNCHANGED <<keyCache, increments>>
             [] OTHER ->
                  /\ increments' = increments + 1
                  /\ keyCache' = <<[timestamp |-> clock]>>
                  /\ served' = [status |-> 200, cached |-> FALSE] @@ note
    /\ authCalls' = RemoveAt(authCalls, i)
    /\ UNCHANGED <<apiKeyRow, subscription, deletion, presented>>
    /\ UNCHANGED <<schedulerVars, clock, runs, started, store, trigger, settled,
                   searchVars, normVars, readVars>>

\* The database applies an update { requestsUsed: { increment: 1 } }.
IncrementApplied ==
    /\ increments > 0
    /\ increments' = increments - 1
    /\ subscription' = [subscription EXCEPT !.requestsUsed = @ + 1]
    /\ UNCHANGED <<keyCache, apiKeyRow, authCalls, deletion, served, presented>>
    /\ UNCHANGED <<schedulerVars, clock, runs, started, store, trigger, settled,
                   searchVars, normVars, readVars>>

\* DELETE /keys/:keyId: findFirst has found the key and the database applies
\* update({ data: { isActive: false } }).
DeleteKeyUpdates ==
    /\ deletion = "none"
    /\ apiKeyRow' = [apiKeyRow EXCEPT !.isActive = FALSE]
    /\ deletion' = "updated"
    /\ UNCHANGED <<keyCache, subscription, authCalls, increments, served, presented>>
    /\ UNCHANGED <<schedulerVars, clock, runs, started, store, trigger, settled,
                   searchVars, normVars, readVars>>

\* DELETE /keys/:keyId after await update: invalidateKeyCache(key.key), that
\* is keyCache.delete(apiKey), and the success reply.
DeleteKeyReturns ==
    /\ deletion = "updated"
    /\ keyCache' = << >>
    /\ deletion' = "returned"
    /\ UNCHANGED <<apiKeyRow, subscription, authCalls, increments, served, presented>>
    /\ UNCHANGED <<schedulerVars, clock, runs, started, store, trigger, settled,
                   searchVars, normVars, readVars>>

\* The setInterval callback: entries older than CACHE_TTL are deleted.
CacheSweep ==
    /\ keyCache # << >>
    /\ clock - keyCache[1].timestamp > CACHE_TTL
    /\ keyCache' = << >>
    /\ UNCHANGED <<apiKeyRow, subscription, authCalls, increments, deletion, served, presented>>
    /\ UNCHANGED <<schedulerVars, clock, runs, started, store, trigger, settled,
                   searchVars, normVars, readVars>>

\* Time passes: half the lifetime of a cache entry.
AuthTick ==
    /\ clock < MaxTtls * CACHE_TTL
    /\ clock' = clock + CACHE_TTL \div 2
    /\ UNCHANGED <<schedulerVars, runs, started, store, trigger, settled,
                   searchVars, normVars, authVars, readVars>>

NextAuth ==
    \/ authMiddlewareBegins
    \/ \E i \in 1..Len(authCalls) : findUniqueAnswers(i)
    \/ \E i \in 1..Len(authCalls) : authMiddlewareResumes(i)
    \/ IncrementApplied
    \/ DeleteKeyUpdates
    \/ DeleteKeyReturns
    \/ CacheSweep
    \/ AuthTick

SpecAuth == Init /\ [][NextAuth]_vars

(***************************************************************************)
(* Properties.                                                             *)
(***************************************************************************)
IsPrefix(a, b) == Len(a) <= Len(b) /\ SubSeq(b, 1, Len(a)) = a

Range(seq) == {seq[k] : k \in 1..Len(seq)}

\* C1: under every interleaving of timer firings and manual triggers, at most
\* one execution of scrapeAll is in flight at any time.
C1_AtMostOneRun == Len(runs) <= 1

\* C1 witness: a trigger arrived while a run was in flight, and that run is
\* still the only one.
C1_Witness == Len(runs) = 1 /\ trigger.busy /\ isRunning

\* C2: a trigger that arrives during a run starts nothing; a manual trigger is
\* answered 202 exactly when it started a run itself, and 409 otherwise.
C2_OnlyTheStarterIsAccepted ==
    /\ trigger.busy => ~trigger.began
    /\ trigger.kind = "post" =>
         /\ trigger.reply = 202 <=> trigger.began
         /\ trigger.reply = 409 <=> ~trigger.began
         /\ trigger.reply = 409 <=> trigger.busy

\* C2 witness: a manual trigger started the run in flight and a second manual
\* trigger has been answered 409.
C2_Witness ==
    /\ Len(runs) = 1
    /\ runs[1].by = "post"
    /\ trigger.kind = "post"
    /\ trigger.reply = 409

\* C3: a trigger handled while a run is in progress returns null (a manual one
\* is answered before runScraping is called), changes neither isRunning,
\* lastRun, lastResult, the runs in flight nor the store, and queues nothing:
\* the scheduler leaves Idle only in a step that handles a trigger arriving
\* while Idle, and the end of a run starts no other.
C3_RejectedIsNoOp ==
    [][ /\ (trigger' # trigger /\ trigger'.busy) =>
             /\ UNCHANGED <<isRunning, lastRun, lastResult, runs, started, store>>
             /\ ~trigger'.began
             /\ trigger'.kind = "cron" => trigger'.ret = "null"
        /\ (~isRunning /\ isRunning') =>
             /\ started' = started + 1
             /\ trigger'.began
             /\ ~trigger'.busy
        /\ (isRunning /\ ~isRunning') =>
             /\ started' = started
             /\ Len(runs') = Len(runs) - 1 ]_vars

\* C3 witness: the last trigger was rejected by runScraping during a run,
\* that run has settled since, and the scheduler is Idle with no run in
\* flight.
C3_Witness ==
    /\ trigger.busy
    /\ trigger.kind = "cron"
    /\ trigger.ret = "null"
    /\ HasSettled
    /\ ~isRunning
    /\ runs = << >>

\* C4: isRunning is true only while a run is in flight, and every run that
\* starts brings the scheduler back to Idle, whether scrapeAll returns or
\* throws.
C4_RunsEndIdle ==
    /\ [](isRunning => runs # << >>)
    /\ isRunning ~> ~isRunning

\* C4 witness: a run whose pipeline threw has settled and the scheduler is
\* Idle.
C4_Witness == HasSettled /\ settled.threw /\ ~isRunning /\ runs = << >>

\* C5: a run in which every fetch failed returns a summary with total = 0 and
\* saved = 0, which is what lastResult holds, and with no run in flight the
\* scheduler is Idle.
C5_AllFetchesFail ==
    (HasSettled /\ settled.allFailed) =>
      /\ ~settled.threw
      /\ settled.ret # << >>
      /\ settled.ret[1].total = 0
      /\ settled.ret[1].saved = 0
      /\ lastResult = settled.ret
      /\ runs = << >> => ~isRunning

\* C5 witness: a run all of whose fetches failed has settled and the
\* scheduler is Idle.
C5_Witness ==
    /\ settled.allFailed
    /\ Len(settled.fetched) = NumPairs
    /\ lastResult # << >>
    /\ ~isRunning

CrossProduct == {<<a, d>> : a \in Range(annees), d \in Range(DEPARTEMENTS)}

EntityOf(r) ==
    [ externalId |-> r.externalId, source |-> r.source, price |-> r.price,
      pricePerSqm |-> r.pricePerSqm, surface |-> r.surface,
      propertyType |-> r.propertyType, transactionType |-> r.transactionType,
      department |-> r.department, region |-> r.region ]

\* The rows written from raw record m: those the normalizer can produce
\* from m at some time and with some random draw.
RowsOf(m) ==
    {r \in store : \E now \in 0..clock, rnd \in RandomSuffixes :
                     mutationToProperty(m, now, rnd) = <<EntityOf(r)>>}

SourceRecords == {RecA, RecNoId, RecZeroPrice}

\* C7: the source holds each raw record once and answers the same in every
\* run, so however many runs ingest a record, the store holds at most one row
\* written from it.
C7_OneRowPerRecord == \A m \in SourceRecords : Cardinality(RowsOf(m)) <= 1

\* C8: all the calls of mutationToProperty on one raw record that produce an
\* entity produce the same externalId.
C8_SameExternalId ==
    \A j, k \in 1..Len(normOut) :
      (normOut[j] # << >> /\ normOut[k] # << >>) =>
        normOut[j][1].externalId = normOut[k][1].externalId

\* The data of the upserts that are awaited in the current state.
PendingUpserts ==
    {runs[i].totalProperties[runs[i].saveIdx] :
       i \in {j \in 1..Len(runs) : runs[j].pc = "save"}}
      \cup (IF search = << >> THEN {} ELSE {Head(search)})

\* A step that changes the table writes exactly one row, from the data of an
\* awaited upsert: a new row when no row had its externalId, and otherwise
\* the row that had it, rewritten with the data's values and updatedAt
\* refreshed, the number of rows staying the same.
C9_UpsertStep ==
    store' # store =>
      \E new \in store' \ store :
        LET olds == {r \in store : r.externalId = new.externalId}
        IN  /\ \E d \in PendingUpserts : new = MakeRow(d, new.id, new.createdAt, clock)
            /\ new.updatedAt = clock
            /\ store' = (store \ olds) \cup {new}
            /\ olds = {} => Cardinality(store') = Cardinality(store) + 1
            /\ olds # {} =>
                 /\ Cardinality(store') = Cardinality(store)
                 /\ \A old \in olds : new.createdAt = old.createdAt

\* C9: under every interleaving of the upserts of the pipeline and of the
\* search route, no two rows have the same externalId, and an upsert of an
\* externalId that is stored rewrites that row and adds none.
C9_ExternalIdUnique ==
    /\ [](\A r1, r2 \in store : r1.externalId = r2.externalId => r1 = r2)
    /\ [][C9_UpsertStep]_vars

\* C9 witness: a row written by the pipeline has been rewritten by a later
\* run and a row written by the search route is stored with it.
C9_Witness ==
    /\ \E r \in store : r.source = "dvf_gouv" /\ r.updatedAt > r.createdAt
    /\ \E r \in store : r.source = "demo"

IsAbsent(v) == IsUndef(v) \/ IsNull(v)

\* The field holds a number, or a string that reads as a number, that is <= 0.
NonPositive(v) ==
    \/ IsNum(v) /\ v[2] <= 0
    \/ IsStr(v) /\ IsNum(parseFloat(v)) /\ parseFloat(v)[2] <= 0

\* C10: a raw record whose price is <= 0, whose surface is <= 0, or that has
\* neither price nor surface, gives no entity in any call, so nothing of it
\* is passed on to be saved.
C10_RejectsNonPositive ==
    ( \/ NonPositive(normIn.valeur_fonciere)
      \/ NonPositive(normIn.surface_reelle_bati)
      \/ IsAbsent(normIn.valeur_fonciere) /\ IsAbsent(normIn.surface_reelle_bati) ) =>
      \A k \in 1..Len(normOut) : normOut[k] = << >>

\* C10 witness: the normalizer has been called on a record whose price is the
\* string "0", which is truthy, and whose surface is in range.
C10_Witness ==
    /\ normIn.valeur_fonciere = Str(<<"0">>)
    /\ normIn.surface_reelle_bati = Num(70)
    /\ Len(normOut) >= 1

\* The entities the calls of the normalizer have produced.
Produced == {normOut[k][1] : k \in {j \in 1..Len(normOut) : normOut[j] # << >>}}

InRange(v, lo, hi) == IsNum(v) /\ lo <= v[2] /\ v[2] <= hi

\* C11: every entity the normalizer produces has a price in
\* [MIN_PRICE, MAX_PRICE] and a surface in [MIN_SURFACE, MAX_SURFACE].
C11_WithinBounds ==
    \A e \in Produced :
      /\ InRange(e.price, MIN_PRICE, MAX_PRICE)
      /\ InRange(e.surface, MIN_SURFACE, MAX_SURFACE)

\* C12: the pricePerSqm of every entity is round(price / surface) of the
\* entity's own price and surface: the integer q with
\* q <= price / surface + 1/2 < q + 1; and it is not a number when one of the
\* two is not.
C12_PricePerSqmIsRounded ==
    \A e \in Produced :
      IF IsNum(e.price) /\ IsNum(e.surface)
        THEN /\ IsNum(e.pricePerSqm)
             /\ 2 * e.pricePerSqm[2] * e.surface[2] <= 2 * e.price[2] + e.surface[2]
             /\ 2 * e.price[2] + e.surface[2] < 2 * (e.pricePerSqm[2] + 1) * e.surface[2]
        ELSE IsNaN(e.pricePerSqm)

\* C12 witness: an entity whose quotient falls half-way between two integers,
\* 10000 / 32 = 312.5, has been produced with pricePerSqm 313.
C12_Witness ==
    \E e \in Produced :
      /\ e.price = Num(MIN_PRICE)
      /\ e.surface = Num(32)
      /\ e.pricePerSqm = Num(313)

\* The number of records of the k-th pair's page that the normalizer accepts.
AcceptedAt(k) == Len(SelectSeq(SourceData(PairAt(k)[1], PairAt(k)[2]), PassesFilters))

RECURSIVE AcceptedUpTo(_)
AcceptedUpTo(k) == IF k = 0 THEN 0 ELSE AcceptedUpTo(k - 1) + AcceptedAt(k)

SummaryAddsUp(r) ==
    /\ r.total = r.saved + r.errors
    /\ r.total <= AcceptedUpTo(NumPairs)

\* C13: in every summary a run returns, and so in lastResult, total is
\* saved + errors, and total counts no more than the entities the normalizer
\* accepts over all the pairs.
C13_TotalIsSavedPlusErrors ==
    /\ settled.ret # << >> => SummaryAddsUp(settled.ret[1])
    /\ lastResult # << >> => SummaryAddsUp(lastResult[1])

\* C13 witness: a run has returned a summary with one entity saved and one
\* whose upsert failed.
C13_Witness ==
    /\ lastResult # << >>
    /\ lastResult[1].total = 2
    /\ lastResult[1].saved = 1
    /\ lastResult[1].errors = 1

\* C14: while saveProperties runs, every entity before the current one has
\* been attempted once (saved or counted in errors); a failing upsert adds one
\* to errors, removes nothing from the table and is followed by the upsert of
\* the next entity; and the run that ends in saveProperties returns a summary
\* that accounts for every entity of the batch.
C14_FailedUpsertIsSkipped ==
    /\ [](\A i \in 1..Len(runs) :
            runs[i].pc = "save" => runs[i].saved + runs[i].errors = runs[i].saveIdx - 1)
    /\ [][\A i \in 1..Len(runs) :
            runs[i].pc = "save" =>
              IF Len(runs') = Len(runs)
                THEN runs'[i] # runs[i] =>
                       /\ runs'[i].pc = "save"
                       /\ runs'[i].saveIdx = runs[i].saveIdx + 1
                       /\ runs'[i].totalProperties = runs[i].totalProperties
                       /\ runs'[i].errors = runs[i].errors + 1 =>
                            /\ store' = store
                            /\ runs'[i].saved = runs[i].saved
                ELSE /\ ~settled'.threw
                     /\ settled'.ret # << >>
                     /\ runs[i].saveIdx = Len(runs[i].totalProperties)
                     /\ settled'.ret[1].saved + settled'.ret[1].errors
                          = Len(runs[i].totalProperties)
                     /\ settled'.ret[1].errors = runs[i].errors + 1 => store' = store]_vars

\* C14 witness: the upsert of the first entity of a batch of two has failed
\* and the upsert of the second is awaited.
C14_Witness ==
    \E i \in 1..Len(runs) :
      /\ runs[i].pc = "save"
      /\ runs[i].saveIdx = 2
      /\ runs[i].errors = 1
      /\ runs[i].saved = 0
      /\ Len(runs[i].totalProperties) = 2

\* C15: the step in which a run returns sets lastRun to the time of the step
\* and lastResult to the summary of that run, and leaves the scheduler Idle;
\* whenever the last run to settle is one that returned, the status shows
\* that run's summary and completion time, not those of an earlier run; and
\* lastRun and lastResult are set together.
C15_LastResultIsLastSummary ==
    /\ [][(Len(runs') < Len(runs) /\ ~settled'.threw) =>
            /\ lastRun' = <<clock'>>
            /\ lastResult' = settled'.ret
            /\ ~isRunning'
            /\ \E i \in 1..Len(runs) :
                 /\ runs' = RemoveAt(runs, i)
                 /\ lastResult'[1].scrapedAt = clock'
                 /\ lastResult'[1].total = Len(runs[i].totalProperties)]_vars
    /\ []((HasSettled /\ ~settled.threw) =>
            \A now \in WallTimes :
              /\ getStatus(now).lastResult = settled.ret
              /\ getStatus(now).lastRun = <<settled.ret[1].scrapedAt>>)
    /\ [](lastRun = << >> <=> lastResult = << >>)

\* C15 witness: two runs have returned, the second after the first, and
\* the scheduler is Idle with the summary of the second (a run that throws
\* does so before its last delay, so a completion time of two full runs
\* means that both returned).
C15_Witness ==
    /\ started = 2
    /\ runs = << >>
    /\ ~isRunning
    /\ ~settled.threw
    /\ lastResult = settled.ret
    /\ lastResult # << >>
    /\ lastResult[1].scrapedAt >= 2 * NumPairs

AlignedHours == {0, 6, 12, 18}

\* The hours elapsed since day 0, 00:00, at the start of the hour of t.
HourIndex(t) == t.day * 24 + t.hours

IsAligned(t) ==
    /\ t.hours \in AlignedHours
    /\ t.minutes = 0
    /\ t.seconds = 0
    /\ t.ms = 0

\* C16: the nextRun of every status is an instant at 00:00, 06:00, 12:00 or
\* 18:00 sharp whose hour is after the hour of now, with no such hour in
\* between (so it is a function of now alone, whatever the scheduler's
\* state), and asking for the status changes nothing of the scheduler, the
\* runs or the table.
C16_NextRunIsNextSlot ==
    /\ [](response.route = "status" =>
            LET now == request.now
                next == response.status.nextRun
            IN  /\ IsAligned(next)
                /\ HourIndex(next) > HourIndex(now)
                /\ \A h \in (HourIndex(now) + 1)..(HourIndex(next) - 1) : h % 6 # 0)
    /\ [][(request' # request \/ response' # response) =>
            UNCHANGED <<isRunning, lastRun, lastResult, runs, started, store,
                        clock, trigger, settled>>]_vars

\* C16 witness: the status was asked at 18:59:59.999 of day 0, during the
\* second run, and nextRun is 00:00 of day 1.
C16_Witness ==
    /\ request.route = "status"
    /\ request.now = MakeDate(0, 18, 59, 59, 999)
    /\ response.status.nextRun = MakeDate(1, 0, 0, 0, 0)
    /\ response.status.isRunning
    /\ response.status.lastRun # << >>

\* C17: the step in which a manual trigger starts a run answers 202 while
\* that run is at its first fetch, nothing of it being settled or recorded
\* yet; and the run then goes on to settle, by returning or by throwing.
C17_AcceptedBeforeCompletion ==
    /\ [][(started' = started + 1 /\ trigger'.kind = "post") =>
            /\ trigger'.reply = 202
            /\ trigger'.ret = "pending"
            /\ isRunning'
            /\ Len(runs') = Len(runs) + 1
            /\ runs'[Len(runs')].pc = "fetch"
            /\ runs'[Len(runs')].pair = 1
            /\ UNCHANGED <<settled, lastRun, lastResult, store>>]_vars
    /\ (trigger.kind = "post" /\ trigger.reply = 202 /\ runs # << >>)
         ~> (runs = << >> /\ HasSettled /\ ~isRunning)

\* C17 witness: a manual trigger has been answered 202 and the run it
\* started is still in flight, saving its entities.
C17_Witness ==
    /\ trigger.kind = "post"
    /\ trigger.reply = 202
    /\ Len(runs) = 1
    /\ runs[1].by = "post"
    /\ runs[1].pc = "save"
    /\ isRunning

\* The values of a column over the rows a request selects, zero and null
\* left out, in ascending order.
ColumnOf(field) ==
    SortAsc(TruthyNumbers(
      LET rows == SetToSeq(StatsWhere(store, request.params))
      IN  [k \in 1..Len(rows) |-> rows[k][field]]))

\* reported is the median of the ascending sequence vals: its middle
\* element, or the average of its two middle elements.
IsMedianOf(reported, vals) ==
    LET n == Len(vals)
    IN  IF n % 2 = 1
          THEN reported = vals[(n + 1) \div 2]
          ELSE 2 * reported = vals[n \div 2] + vals[(n \div 2) + 1]

\* C18: the median the market statistics report for price, pricePerSqm and
\* surface is the middle element of the sorted values when their number is
\* odd and the average of the two middle elements when it is even.
C18_MedianIsMiddle ==
    (response.route = "market" /\ response.stats.count > 0) =>
      /\ ColumnOf("price") # << >> =>
           IsMedianOf(response.stats.price.median, ColumnOf("price"))
      /\ ColumnOf("pricePerSqm") # << >> =>
           IsMedianOf(response.stats.pricePerSqm.median, ColumnOf("pricePerSqm"))
      /\ ColumnOf("surface") # << >> =>
           IsMedianOf(response.stats.surface.median, ColumnOf("surface"))

\* C19: when the filtered price set is not empty, the distribution has as
\* many buckets as were asked, their counts add up to the number of prices,
\* and the last bucket counts the properties at the maximum price.
C19_BucketsCoverEveryPrice ==
    response.route = "distribution" =>
      LET rows == DistWhere(store, request.query)
          data == response.data
          top == CHOOSE r \in rows : \A q \in rows : q.price[2] <= r.price[2]
      IN  rows # {} =>
            /\ Len(data) = request.query.buckets
            /\ SumOf([n \in 1..Len(data) |-> data[n].count]) = Cardinality(rows)
            /\ data[Len(data)].count >= Cardinality({r \in rows : r.price = top.price})

\* C20: the result of a geo search holds every stored property that is at
\* the center, and no property whose distance from the center is greater
\* than radiusKm.
C20_CenterInFarOut ==
    response.route = "geo" =>
      LET body == request.body
          found == {response.data[k].id : k \in DOMAIN response.data}
      IN  /\ \A p \in store : LatitudeGap(p, body) = 0 => p.id \in found
          /\ \A p \in store :
               LatitudeGap(p, body) * MetresPerDegree > body.radiusKm * 1000 * DegreeUnits =>
                 p.id \notin found

\* C22: a fetch whose network call fails or times out fails with a
\* FetchError naming the (annee, dep) pair, so what scrapeAll receives from
\* it differs from what it receives from a fetch that found no record: the
\* locals of scrapeAll after a failed fetch (the count of failures is kept
\* by the observer, not by the code) are not those after an empty answer.
C22_FailedFetchIsTold ==
    [][\A i \in 1..Len(runs) :
         (/\ Len(runs') = Len(runs)
          /\ runs[i].pc = "fetch"
          /\ runs'[i].failed = runs[i].failed + 1)
         => [runs'[i] EXCEPT !.failed = runs[i].failed]
              # [runs[i] EXCEPT !.pc = "delay"]]_vars

\* C23: within a run a pair is fetched only after the delay that follows the
\* fetch before it has ended, one pair at a time in the order of the loops;
\* and a step of the pipeline changes the store only when the run that
\* takes it is in its upsert pass, with every pair fetched and converted
\* and nothing left to fetch.
C23_DelayThenBulkUpsert ==
    /\ [][\A i \in 1..Len(runs) :
            (Len(runs') = Len(runs) /\ runs'[i].fetched # runs[i].fetched) =>
              /\ runs[i].pc = "delay"
              /\ clock' = clock + 1
              /\ runs'[i].fetched = Append(runs[i].fetched, PairAt(Len(runs[i].fetched) + 1))
              /\ store' = store]_vars
    /\ [][store' # store =>
            \E i \in 1..Len(runs) :
              /\ runs[i].pc = "save"
              /\ Len(runs[i].fetched) = NumPairs
              /\ runs[i].pair = NumPairs]_vars
    /\ [](\A i \in 1..Len(runs) :
            runs[i].pc = "save" => Len(runs[i].fetched) = NumPairs)

\* C23 witness: a run has fetched every pair, each after the delay of the
\* one before, and its upsert pass has written a row to the store.
C23_Witness ==
    /\ Len(runs) = 1
    /\ runs[1].pc = "save"
    /\ runs[1].fetched = [k \in 1..NumPairs |-> PairAt(k)]
    /\ runs[1].saved >= 1
    /\ store # {}
    /\ clock >= NumPairs

\* C30: the step in which a run's pipeline throws leaves lastRun and
\* lastResult as they were, runScraping gives null and the scheduler is
\* Idle; so with the constructor setting both to null and a run that returns
\* setting both, lastRun is null exactly when lastResult is null.
C30_ThrowLeavesLastRun ==
    /\ [][(Len(runs') < Len(runs) /\ settled'.threw) =>
            /\ lastRun' = lastRun
            /\ lastResult' = lastResult
            /\ settled'.ret = << >>
            /\ ~isRunning']_vars
    /\ [][(lastRun' # lastRun \/ lastResult' # lastResult) =>
            /\ Len(runs') < Len(runs)
            /\ ~settled'.threw
            /\ lastRun' # << >>
            /\ lastResult' # << >>]_vars
    /\ []((lastRun = << >>) = (lastResult = << >>))

\* C30 witness: a first run returned and a second one threw; the status
\* still holds the completion time and the summary of the first.
C30_Witness ==
    /\ started = 2
    /\ runs = << >>
    /\ settled.threw
    /\ settled.ret = << >>
    /\ lastRun # << >>
    /\ lastResult # << >>
    /\ lastResult[1].scrapedAt = lastRun[1]
    /\ ~isRunning

\* The values of propertyType the routes accept (the enum of the search,
\* properties and stats schemas) and the fallback of the normalizer; in the
\* order apartment, house, studio, loft, land, other.
CanonicalTypes ==
    { Txt("appartement"), Txt("maison"), Txt("studio"), Txt("loft"),
      Txt("terrain"), Txt("autre") }

\* C24: the propertyType of every entity the normalizer produces is one of
\* the canonical values; a record whose type_local is not a key of the
\* mapping gets the fallback value, and is rejected only if the same record
\* with a mapped type_local is rejected too.
C24_TypeIsCanonical ==
    /\ \A e \in Produced : e.propertyType \in CanonicalTypes
    /\ IsUndef(TYPE_LOCAL_MAP(normIn.type_local)) =>
         /\ \A e \in Produced : e.propertyType = Txt("autre")
         /\ \A k \in 1..Len(normOut) :
              normOut[k] = << >> =>
                ~PassesFilters([normIn EXCEPT !.type_local = Txt("Appartement")])

\* C25: the region of every entity is what the static table gives for the
\* department of the record, and "unknown" when the record has no
\* department.
C25_RegionOfDepartment ==
    \A e \in Produced :
      IF IsAbsent(normIn.code_departement)
        THEN e.region = Txt("unknown")
        ELSE e.region = getRegionFromDepartement(normIn.code_departement)

\* C26: a record whose price or surface is present but does not parse to a
\* number gives no entity, and the price, the surface and the pricePerSqm
\* of every entity produced are numbers.
C26_UnparseableIsRejected ==
    /\ ( \/ ~IsAbsent(normIn.valeur_fonciere) /\ IsNaN(parseFloat(normIn.valeur_fonciere))
         \/ ~IsAbsent(normIn.surface_reelle_bati) /\ IsNaN(parseFloat(normIn.surface_reelle_bati)) )
       => Produced = {}
    /\ \A e \in Produced :
         IsNum(e.price) /\ IsNum(e.surface) /\ IsNum(e.pricePerSqm)

\* The rows the trends of the last request were computed from.
TrendRowsAsked == TrendsWhere(store, request.query)

\* The rows of the last request whose period key is key.
RowsInPeriod(key) ==
    {r \in TrendRowsAsked : periodKey(request.query.period, r.scrapedAt) = key}

\* C21: the trends hold one bucket per distinct period key of the filtered
\* rows, the listingsCount of a bucket is the number of filtered rows of
\* that period, and the counts add up to the number of filtered rows.
C21_CountsEveryRow ==
    response.route = "trends" =>
      LET data == response.data
          keys == {periodKey(request.query.period, r.scrapedAt) : r \in TrendRowsAsked}
      IN  /\ Len(data) = Cardinality(keys)
          /\ {data[n].period : n \in 1..Len(data)} = keys
          /\ \A n \in 1..Len(data) :
               data[n].listingsCount = Cardinality(RowsInPeriod(data[n].period))
          /\ SumOf([n \in 1..Len(data) |-> data[n].listingsCount])
               = Cardinality(TrendRowsAsked)

\* The Monday that starts the ISO week of day t.
MondayOf(t) == t - ((DateFields(t).getDay + 6) % 7)

\* C27: with period = week the keys of the buckets are the dates of the
\* Mondays of the ISO weeks of the filtered rows, and two rows have the same
\* key exactly when they were scraped in the same Monday-to-Sunday week.
C27_WeekStartsOnMonday ==
    (response.route = "trends" /\ request.query.period = "week") =>
      /\ {response.data[n].period : n \in 1..Len(response.data)}
           = {toISODate(MondayOf(r.scrapedAt)) : r \in TrendRowsAsked}
      /\ \A r1, r2 \in TrendRowsAsked :
           (periodKey("week", r1.scrapedAt) = periodKey("week", r2.scrapedAt))
             <=> (MondayOf(r1.scrapedAt) = MondayOf(r2.scrapedAt))

\* C28: once DELETE /keys/:keyId has returned, a request that arrives with
\* the key is not authenticated, and the key cache holds no entry for the
\* key, whatever calls of authMiddleware were in flight.
C28_RevokedKeyIsRefused ==
    /\ (served.revoked => served.status # 200)
    /\ (deletion = "returned" => keyCache = << >>)

\* C29: a request that authMiddleware lets through has one increment of
\* requestsUsed sent for it, and a request that arrives when requestsUsed has
\* reached the limit of the plan is answered 429, also when its key is in
\* the cache.
C29_QuotaOnEveryRequest ==
    /\ [][(served' # served /\ served'.status = 200) =>
            increments' = increments + 1]_vars
    /\ [](served.status # 0 /\ ~served.quotaLeft => served.status \in {429, 403})

====
